---- MODULE Spec2Model ----
(***************************************************************************)
(* The veterinary-clinic record store of vet_clinic.py: five SQLite tables *)
(* with their NOT NULL / CHECK / UNIQUE / FOREIGN KEY constraints, the     *)
(* storage access functions execute_query, execute_many and fetch_query,   *)
(* the schema functions drop_tables and create_tables, and the five        *)
(* transactions of main().                                                 *)
(*                                                                         *)
(* The connection is a Python sqlite3 connection in its default (legacy)   *)
(* transaction mode with PRAGMA foreign_keys = ON: a DML statement opens a *)
(* transaction implicitly, a failing statement is backed out alone (the    *)
(* transaction stays open), and only conn.commit() makes changes durable.  *)
(* db is what the connection sees, committed is what is durable.           *)
(***************************************************************************)
EXTENDS Integers, Sequences, FiniteSets, TLC

\* Bounds of the model.
MaxKey == 2       \* well-formed keys of Clinic, of Owner and of Staff
MaxChildKey == 1  \* well-formed keys of Pet and of Examination
MaxPhone == 2     \* well-formed phone numbers
MaxBatch == 2     \* longest parameter sequence given to execute_many
MaxRows == 5      \* rows in the store, all tables together

\* Program constant: the LENGTH(...) <= 500 checks of Examination.
MaxTextLen == 500

VARIABLES db, committed, last
vars == <<db, committed, last>>

(***************************************************************************)
(* SQL values.  A bound parameter is NULL (Python None) or a value.        *)
(* Text is a string; a date text 'YYYY-MM-DD' is the triple <<y, m, d>>;   *)
(* a REAL is an integer.                                                   *)
(***************************************************************************)
Null == [null |-> TRUE]
V(x) == [null |-> FALSE, v |-> x]
IsNull(x) == x.null

Tables == {"Clinic", "Owner", "Staff", "Pet", "Examination"}
DropOrder == <<"Examination", "Pet", "Staff", "Owner", "Clinic">>
CreateOrder == <<"Clinic", "Owner", "Staff", "Pet", "Examination">>

PrimaryKey(t) ==
  CASE t = "Clinic" -> "clinicNo"
    [] t = "Owner" -> "ownerNo"
    [] t = "Staff" -> "staffNo"
    [] t = "Pet" -> "petNo"
    [] t = "Examination" -> "examNo"

KeyPrefix(t) ==
  CASE t = "Clinic" -> "C"
    [] t = "Owner" -> "O"
    [] t = "Staff" -> "S"
    [] t = "Pet" -> "P"
    [] t = "Examination" -> "E"

\* The key text of table t numbered i, e.g. 'C000001'.
KeyText(t, i) == KeyPrefix(t) \o "00000" \o ToString(i)
\* The phone text numbered i, e.g. '212-555-0101'.
PhoneText(i) == "212-555-010" \o ToString(i)

\* Texts of the model other than keys and phones.
PlainName == "Bella"
DigitName == "123InvalidName"
SomeText == "Skin rash"
LongText == "text of 501 characters"
InvalidKey == "InvalidClinicNo"
InvalidPhone == "555-0101"

\* The texts of the model that match the patterns of the schema.
KeyTexts == [t \in Tables |-> {KeyText(t, i) : i \in 0..9}]
PhoneTexts == {PhoneText(i) : i \in 0..9}

\* x GLOB '<prefix>[0-9][0-9][0-9][0-9][0-9][0-9]'
KeyGlob(t, x) == x \in KeyTexts[t]
\* x GLOB '[0-9][0-9][0-9]-[0-9][0-9][0-9]-[0-9][0-9][0-9][0-9]'
PhoneGlob(x) == x \in PhoneTexts
\* x NOT GLOB '*[0-9]*'
NoDigitGlob(x) == x # DigitName
\* LENGTH(x)
Length(x) == IF x = LongText THEN MaxTextLen + 1 ELSE Len(x)

\* date(x) IS NOT NULL: SQLite parses YYYY-MM-DD with the month in 1..12 and
\* the day in 1..31, whatever the month; date(NULL) is NULL.
SqliteDate(x) ==
  /\ ~IsNull(x)
  /\ x.v[1] \in 0..9999
  /\ x.v[2] \in 1..12
  /\ x.v[3] \in 1..31

Positions == {"Veterinarian", "Nurse", "Technician", "Receptionist"}
Species == {"Dog", "Cat", "Bird", "Rabbit", "Other"}

\* A CHECK constraint fails only when its expression is false: an expression
\* that evaluates to NULL passes.
CheckKey(t, x) == IsNull(x) \/ KeyGlob(t, x.v)
CheckName(x) == IsNull(x) \/ NoDigitGlob(x.v)
CheckPhone(x) == IsNull(x) \/ (PhoneGlob(x.v) /\ Len(x.v) = 12)
CheckIn(x, S) == IsNull(x) \/ x.v \in S
CheckSalary(x) == IsNull(x) \/ x.v > 0
CheckLength(x) == IsNull(x) \/ Length(x.v) <= MaxTextLen

NotNullColumns(t) ==
  CASE t = "Clinic" -> {"clinicNo", "clinicName", "clinicAddress", "clinicPhone"}
    [] t = "Owner" -> {"ownerNo", "ownerName", "ownerAddress", "ownerPhone"}
    [] t = "Staff" -> {"staffNo", "staffName", "staffAddress", "staffPhone", "clinicNo"}
    [] t = "Pet" -> {"petNo", "petName", "petDateOfBirth", "species", "ownerNo", "clinicNo"}
    [] t = "Examination" -> {"examNo", "chiefComplaint", "dateSeen", "petNo", "staffNo"}

CheckConstraints(t, r) ==
  CASE t = "Clinic" ->
         /\ CheckKey(t, r.clinicNo)
         /\ CheckName(r.clinicName)
         /\ CheckPhone(r.clinicPhone)
    [] t = "Owner" ->
         /\ CheckKey(t, r.ownerNo)
         /\ CheckName(r.ownerName)
         /\ CheckPhone(r.ownerPhone)
    [] t = "Staff" ->
         /\ CheckKey(t, r.staffNo)
         /\ CheckName(r.staffName)
         /\ CheckPhone(r.staffPhone)
         /\ SqliteDate(r.dateOfBirth)
         /\ CheckIn(r.position, Positions)
         /\ CheckSalary(r.salary)
    [] t = "Pet" ->
         /\ CheckKey(t, r.petNo)
         /\ CheckName(r.petName)
         /\ SqliteDate(r.petDateOfBirth)
         /\ CheckIn(r.species, Species)
    [] t = "Examination" ->
         /\ CheckKey(t, r.examNo)
         /\ CheckLength(r.chiefComplaint)
         /\ CheckLength(r.description)
         /\ SqliteDate(r.dateSeen)

UniqueColumns(t) ==
  CASE t = "Clinic" -> {"clinicNo", "clinicPhone"}
    [] t = "Owner" -> {"ownerNo", "ownerPhone"}
    [] t = "Staff" -> {"staffNo", "staffPhone"}
    [] t = "Pet" -> {"petNo"}
    [] t = "Examination" -> {"examNo"}

\* FOREIGN KEY(col) REFERENCES parent(primary key of parent)
ForeignKeys(t) ==
  CASE t = "Staff" -> {[col |-> "clinicNo", parent |-> "Clinic"]}
    [] t = "Pet" -> {[col |-> "ownerNo", parent |-> "Owner"],
                     [col |-> "clinicNo", parent |-> "Clinic"]}
    [] t = "Examination" -> {[col |-> "petNo", parent |-> "Pet"],
                             [col |-> "staffNo", parent |-> "Staff"]}
    [] OTHER -> {}

(***************************************************************************)
(* The store: which tables exist and the rows of each.  A statement is     *)
(* prepared (tables resolved), then run; an INSERT or UPDATE checks        *)
(* NOT NULL, then CHECK, then UNIQUE, and the immediate foreign keys when  *)
(* the statement ends.  A failing statement changes nothing.               *)
(***************************************************************************)
EmptyStore == [present |-> {}, rows |-> [t \in Tables |-> {}]]

Ok(s) == [ok |-> TRUE, err |-> "", db |-> s]
Fail(s, e) == [ok |-> FALSE, err |-> e, db |-> s]

NoSuchTable == "no such table"
NotNullFailed == "NOT NULL constraint failed"
CheckFailed == "CHECK constraint failed"
UniqueFailed == "UNIQUE constraint failed"
ForeignKeyFailed == "FOREIGN KEY constraint failed"

HasKey(s, t, x) == \E p \in s.rows[t] : p[PrimaryKey(t)] = x

\* Faulty variant: the connection without PRAGMA foreign_keys = ON.
ForeignKeysOff(s, t, r) == TRUE

\* Every non-NULL foreign key of row r of table t has its parent row.
ForeignKeysHold(s, t, r) ==
  \A fk \in ForeignKeys(t) : IsNull(r[fk.col]) \/ HasKey(s, fk.parent, r[fk.col])

\* Faulty variant: UNIQUE on the primary key only.
UniqueOnKeyOnly(s, t, r) ==
  \A q \in s.rows[t] : q[PrimaryKey(t)] # r[PrimaryKey(t)]

\* No row of table t has r's value in a UNIQUE column.
UniqueHolds(s, t, r) ==
  \A c \in UniqueColumns(t) : \A q \in s.rows[t] : IsNull(r[c]) \/ q[c] # r[c]

\* INSERT INTO t (...) VALUES (?, ...) with the parameters r.
ExecInsert(s, t, r) ==
  IF t \notin s.present \/ \E fk \in ForeignKeys(t) : fk.parent \notin s.present
    THEN Fail(s, NoSuchTable)
  ELSE IF \E c \in NotNullColumns(t) : IsNull(r[c]) THEN Fail(s, NotNullFailed)
  ELSE IF ~CheckConstraints(t, r) THEN Fail(s, CheckFailed)
  ELSE IF ~UniqueHolds(s, t, r) THEN Fail(s, UniqueFailed)
  ELSE IF ~ForeignKeysHold(s, t, r) THEN Fail(s, ForeignKeyFailed)
  ELSE Ok([s EXCEPT !.rows[t] = @ \cup {r}])

\* Faulty variant: the UPDATE without its WHERE clause.
ExecUpdateEveryStaff(s, clinicNo, staffNo) ==
  LET hit == s.rows["Staff"]
      new == {[r EXCEPT !.clinicNo = clinicNo] : r \in hit}
  IN IF "Staff" \notin s.present \/ "Clinic" \notin s.present
       THEN Fail(s, NoSuchTable)
     ELSE IF hit = {} THEN Ok(s)
     ELSE IF IsNull(clinicNo) THEN Fail(s, NotNullFailed)
     ELSE IF ~HasKey(s, "Clinic", clinicNo) THEN Fail(s, ForeignKeyFailed)
     ELSE Ok([s EXCEPT !.rows["Staff"] = new])

\* UPDATE Staff SET clinicNo = ? WHERE staffNo = ?
ExecUpdateStaffClinic(s, clinicNo, staffNo) ==
  LET hit == {r \in s.rows["Staff"] : ~IsNull(staffNo) /\ r.staffNo = staffNo}
      new == {[r EXCEPT !.clinicNo = clinicNo] : r \in hit}
  IN IF "Staff" \notin s.present \/ "Clinic" \notin s.present
       THEN Fail(s, NoSuchTable)
     ELSE IF hit = {} THEN Ok(s)
     ELSE IF IsNull(clinicNo) THEN Fail(s, NotNullFailed)
     ELSE IF \E r \in new : ~ForeignKeysHold(s, "Staff", r) THEN Fail(s, ForeignKeyFailed)
     ELSE Ok([s EXCEPT !.rows["Staff"] = (@ \ hit) \cup new])

\* A row of an existing table that references a row of table t.
Referenced(s, t) ==
  \E c \in s.present : \E fk \in ForeignKeys(c) :
    /\ fk.parent = t
    /\ \E q \in s.rows[c] : ~IsNull(q[fk.col]) /\ HasKey(s, t, q[fk.col])

\* DROP TABLE IF EXISTS t: the rows are deleted first, under the foreign keys.
ExecDrop(s, t) ==
  IF t \notin s.present THEN Ok(s)
  ELSE IF Referenced(s, t) THEN Fail(s, ForeignKeyFailed)
  ELSE Ok([present |-> s.present \ {t}, rows |-> [s.rows EXCEPT ![t] = {}]])

\* CREATE TABLE IF NOT EXISTS t (...)
ExecCreate(s, t) == Ok([s EXCEPT !.present = @ \cup {t}])

Insert(t, r) == [kind |-> "insert", table |-> t, row |-> r]
UpdateStaffClinic(c, k) == [kind |-> "update", clinicNo |-> c, staffNo |-> k]
Drop(t) == [kind |-> "drop", table |-> t]
Create(t) == [kind |-> "create", table |-> t]

Exec(s, st) ==
  CASE st.kind = "insert" -> ExecInsert(s, st.table, st.row)
    [] st.kind = "update" -> ExecUpdateStaffClinic(s, st.clinicNo, st.staffNo)
    [] st.kind = "drop" -> ExecDrop(s, st.table)
    [] st.kind = "create" -> ExecCreate(s, st.table)

(***************************************************************************)
(* Storage access layer.  A connection state cs is [db, committed].        *)
(***************************************************************************)
Result(cs, ok, err) == [cs |-> cs, ok |-> ok, err |-> err]

\* Faulty variant: execute_query without conn.commit().
execute_query_uncommitted(cs, st) ==
  LET r == Exec(cs.db, st)
  IN IF r.ok THEN Result([db |-> r.db, committed |-> cs.committed], TRUE, "")
     ELSE Result(cs, FALSE, r.err)

\* cursor.execute(query, params); conn.commit(); an sqlite3.Error is caught
\* and returned, and nothing is rolled back.
execute_query(cs, st) ==
  LET r == Exec(cs.db, st)
  IN IF r.ok THEN Result([db |-> r.db, committed |-> r.db], TRUE, "")
     ELSE Result(cs, FALSE, r.err)

\* cursor.executemany: the statement is run for the tuples in order and the
\* first failure raises; the tuples before it stay applied in the open
\* transaction.
RECURSIVE ExecMany(_, _, _, _)
ExecMany(s, t, data, i) ==
  IF i > Len(data) THEN Ok(s)
  ELSE LET r == ExecInsert(s, t, data[i])
       IN IF r.ok THEN ExecMany(r.db, t, data, i + 1) ELSE Fail(s, r.err)

\* cursor.executemany(query, data); conn.commit(); as execute_query.
execute_many(cs, t, data) ==
  LET r == ExecMany(cs.db, t, data, 1)
  IN IF r.ok THEN Result([db |-> r.db, committed |-> r.db], TRUE, "")
     ELSE Result([db |-> r.db, committed |-> cs.committed], FALSE, r.err)

\* pd.read_sql_query: the rows of table t with column c equal to x; an
\* sqlite3.Error (no such table) gives the empty frame.
fetch_query(cs, t, c, x) ==
  IF t \in cs.db.present THEN {r \in cs.db.rows[t] : ~IsNull(x) /\ r[c] = x} ELSE {}

(***************************************************************************)
(* Schema manager.                                                         *)
(***************************************************************************)
\* A sequence of statements, each through execute_query, outcomes ignored;
\* failed counts the statements that failed.
RECURSIVE RunAll(_, _, _, _)
RunAll(cs, stmts, i, failed) ==
  IF i > Len(stmts) THEN [cs |-> cs, failed |-> failed]
  ELSE LET r == execute_query(cs, stmts[i])
       IN RunAll(r.cs, stmts, i + 1, IF r.ok THEN failed ELSE failed + 1)

\* Faulty variant: the tables dropped in creation order, referents first.
drop_tables_forward(cs) ==
  RunAll(cs, [i \in 1..Len(CreateOrder) |-> Drop(CreateOrder[i])], 1, 0)

drop_tables(cs) ==
  RunAll(cs, [i \in 1..Len(DropOrder) |-> Drop(DropOrder[i])], 1, 0)

create_tables(cs) ==
  RunAll(cs, [i \in 1..Len(CreateOrder) |-> Create(CreateOrder[i])], 1, 0)

(***************************************************************************)
(* Domain operations: the transactions of main(), with their literals as   *)
(* parameters.                                                             *)
(***************************************************************************)
Outcome(cs, ok, err, owner, out) ==
  [cs |-> cs, ok |-> ok, err |-> err, owner |-> owner, out |-> out]

\* Faulty variant: the pet insert skipped when the owner insert failed.
AddOwnerAndPetShortCircuit(cs, owner, pet) ==
  LET owner_exists == fetch_query(cs, "Owner", "ownerNo", owner.ownerNo)
      r1 == IF owner_exists = {}
              THEN execute_query(cs, Insert("Owner", owner))
              ELSE Result(cs, TRUE, "")
      r2 == IF r1.ok THEN execute_query(r1.cs, Insert("Pet", pet)) ELSE r1
  IN Outcome(r2.cs, r2.ok, r2.err,
             IF owner_exists # {} THEN "exists"
             ELSE IF r1.ok THEN "added" ELSE r1.err,
             IF r2.ok THEN fetch_query(r2.cs, "Pet", "petNo", pet.petNo) ELSE {})

\* Transaction 1: insert the owner unless a point query finds it, then
\* insert the pet whatever the owner step did; re-read the pet on success.
AddOwnerAndPet(cs, owner, pet) ==
  LET owner_exists == fetch_query(cs, "Owner", "ownerNo", owner.ownerNo)
      r1 == IF owner_exists = {}
              THEN execute_query(cs, Insert("Owner", owner))
              ELSE Result(cs, TRUE, "")
      r2 == execute_query(r1.cs, Insert("Pet", pet))
  IN Outcome(r2.cs, r2.ok, r2.err,
             IF owner_exists # {} THEN "exists"
             ELSE IF r1.ok THEN "added" ELSE r1.err,
             IF r2.ok THEN fetch_query(r2.cs, "Pet", "petNo", pet.petNo) ELSE {})

\* Transaction 2: insert the examination; re-read it on success.
RecordExamination(cs, exam) ==
  LET r == execute_query(cs, Insert("Examination", exam))
  IN Outcome(r.cs, r.ok, r.err, "",
             IF r.ok THEN fetch_query(r.cs, "Examination", "examNo", exam.examNo) ELSE {})

\* Faulty variant: the two parameters of the UPDATE bound in the wrong order.
ReassignSwapped(cs, staffNo, newClinicNo) ==
  LET r == execute_query(cs, UpdateStaffClinic(staffNo, newClinicNo))
  IN Outcome(r.cs, r.ok, r.err, "",
             IF r.ok THEN fetch_query(r.cs, "Staff", "staffNo", staffNo) ELSE {})

\* Transaction 3: update the staff member's clinic; re-read it on success.
ReassignStaffClinic(cs, staffNo, newClinicNo) ==
  LET r == execute_query(cs, UpdateStaffClinic(newClinicNo, staffNo))
  IN Outcome(r.cs, r.ok, r.err, "",
             IF r.ok THEN fetch_query(r.cs, "Staff", "staffNo", staffNo) ELSE {})

\* Transaction 4: SELECT petNo, ..., ownerNo FROM Pet WHERE clinicNo = ?
ListPetsByClinic(cs, clinicNo) ==
  {[c \in DOMAIN r \ {"clinicNo"} |-> r[c]] : r \in fetch_query(cs, "Pet", "clinicNo", clinicNo)}

\* Transaction 5: Examination JOIN Pet ON petNo WHERE staffNo = ?; a missing
\* table gives the empty frame.
ExaminationReportByStaff(cs, staffNo) ==
  IF "Pet" \notin cs.db.present THEN {}
  ELSE {[examNo |-> e.examNo, chiefComplaint |-> e.chiefComplaint,
         description |-> e.description, dateSeen |-> e.dateSeen,
         actionsTaken |-> e.actionsTaken, petName |-> p.petName,
         species |-> p.species, breed |-> p.breed, ownerNo |-> p.ownerNo] :
          <<e, p>> \in {x \in fetch_query(cs, "Examination", "staffNo", staffNo)
                               \X cs.db.rows["Pet"] : x[1].petNo = x[2].petNo}}

(***************************************************************************)
(* Arguments.                                                              *)
(***************************************************************************)
KeyCount(t) == IF t \in {"Pet", "Examination"} THEN MaxChildKey ELSE MaxKey
KeySets == [t \in Tables |-> {V(KeyText(t, i)) : i \in 1..KeyCount(t)}]
Keys(t) == KeySets[t]
Phones == {V(PhoneText(i)) : i \in 1..MaxPhone}
GoodDate == V(<<2023, 6, 10>>)

ClinicRow(k, p) ==
  [clinicNo |-> k, clinicName |-> V(PlainName), clinicAddress |-> V(SomeText),
   clinicPhone |-> p]
OwnerRow(k, n, p) ==
  [ownerNo |-> k, ownerName |-> n, ownerAddress |-> V(SomeText), ownerPhone |-> p]
StaffRow(k, p, d, pos, sal, c) ==
  [staffNo |-> k, staffName |-> V(PlainName), staffAddress |-> V(SomeText),
   staffPhone |-> p, dateOfBirth |-> d, position |-> pos, salary |-> sal,
   clinicNo |-> c]
PetRow(k, d, sp, o, c) ==
  [petNo |-> k, petName |-> V(PlainName), petDateOfBirth |-> d, species |-> sp,
   breed |-> Null, color |-> Null, ownerNo |-> o, clinicNo |-> c]
ExamRow(k, d, p, s) ==
  [examNo |-> k, chiefComplaint |-> V(SomeText), description |-> Null,
   dateSeen |-> d, actionsTaken |-> Null, petNo |-> p, staffNo |-> s]

\* Well-formed rows: only uniqueness and the foreign keys can reject them.
RowSets ==
  [t \in Tables |->
    CASE t = "Clinic" -> {ClinicRow(k, p) : k \in Keys(t), p \in Phones}
      [] t = "Owner" -> {OwnerRow(k, V(PlainName), p) : k \in Keys(t), p \in Phones}
      [] t = "Staff" -> {StaffRow(k, p, GoodDate, V("Nurse"), V(1), c) :
                           k \in Keys(t), p \in Phones, c \in Keys("Clinic")}
      [] t = "Pet" -> {PetRow(k, GoodDate, V("Dog"), o, c) :
                         k \in Keys(t), o \in Keys("Owner"), c \in Keys("Clinic")}
      [] t = "Examination" -> {ExamRow(k, GoodDate, p, s) :
                                 k \in Keys(t), p \in Keys("Pet"), s \in Keys("Staff")}]
RowArgs(t) == RowSets[t]

Inserts(T) == {Insert(t, r) : <<t, r>> \in UNION {{t} \X RowArgs(t) : t \in T}}
Updates == {UpdateStaffClinic(c, k) :
              c \in Keys("Clinic") \cup {V(InvalidKey)}, k \in Keys("Staff")}
Schema == {Drop(t) : t \in Tables} \cup {Create(t) : t \in Tables}

DataStatements == Inserts(Tables) \cup Updates
WriteStatements == DataStatements \cup Schema
ClinicArgs == Keys("Clinic") \cup {V(InvalidKey)}

\* Rows that a NOT NULL, a CHECK or a foreign key rejects.
SomeKey(t) == V(KeyText(t, 1))
SomePhone == V(PhoneText(1))
InvalidInserts ==
  {Insert("Clinic", ClinicRow(V(InvalidKey), SomePhone)),
   Insert("Clinic", ClinicRow(Null, SomePhone)),
   Insert("Owner", OwnerRow(SomeKey("Owner"), V(DigitName), SomePhone)),
   Insert("Owner", OwnerRow(SomeKey("Owner"), V(PlainName), V(InvalidPhone))),
   Insert("Staff", StaffRow(SomeKey("Staff"), SomePhone, GoodDate, V("Nurse"), V(1),
                            V(InvalidKey))),
   Insert("Examination",
          [ExamRow(SomeKey("Examination"), GoodDate, SomeKey("Pet"), SomeKey("Staff"))
             EXCEPT !.chiefComplaint = V(LongText)])}

\* Owners and pets for AddOwnerAndPet: the well-formed ones, owners with a
\* digit in the name, pets of an unknown species or at an unknown clinic.
OwnerArgs ==
  RowArgs("Owner") \cup {OwnerRow(k, V(DigitName), SomePhone) : k \in Keys("Owner")}
PetArgs ==
  RowArgs("Pet")
    \cup {PetRow(k, GoodDate, V("Dinosaur"), o, SomeKey("Clinic")) :
            k \in Keys("Pet"), o \in Keys("Owner")}
    \cup {PetRow(k, GoodDate, V("Dog"), o, V(InvalidKey)) :
            k \in Keys("Pet"), o \in Keys("Owner")}

\* Rows whose dates, position, salary and species range over valid and
\* invalid values, NULL included, one column at a time.
Years == {2023, 2024}
Months == {2, 13}
Days == {0, 29, 30, 32}
DateArgs == {V(<<y, m, d>>) : y \in Years, m \in Months, d \in Days} \cup {Null}
PositionArgs == {V("Veterinarian"), V("Janitor"), Null}
SalaryArgs == {V(85000), V(0), Null}
SpeciesArgs == {V("Dog"), V("Dinosaur"), Null}
ValueStatements ==
  {Insert("Clinic", ClinicRow(SomeKey("Clinic"), SomePhone)),
   Insert("Owner", OwnerRow(SomeKey("Owner"), V(PlainName), SomePhone))}
    \cup {Insert("Staff", StaffRow(SomeKey("Staff"), SomePhone, d, V("Nurse"), V(1),
                                   SomeKey("Clinic"))) : d \in DateArgs}
    \cup {Insert("Staff", StaffRow(SomeKey("Staff"), SomePhone, GoodDate, pos, sal,
                                   SomeKey("Clinic"))) :
            pos \in PositionArgs, sal \in SalaryArgs}
    \cup {Insert("Pet", PetRow(SomeKey("Pet"), d, V("Dog"), SomeKey("Owner"),
                               SomeKey("Clinic"))) : d \in DateArgs}
    \cup {Insert("Pet", PetRow(SomeKey("Pet"), GoodDate, sp, SomeKey("Owner"),
                               SomeKey("Clinic"))) : sp \in SpeciesArgs}
    \cup {Insert("Examination", ExamRow(SomeKey("Examination"), d, SomeKey("Pet"),
                                        SomeKey("Staff"))) : d \in DateArgs}

\* The parameter sequences of at most MaxBatch tuples for table t.
BatchSets == [t \in Tables |-> UNION {[1..n -> RowArgs(t)] : n \in 0..MaxBatch}]
Batches(t) == BatchSets[t]

(***************************************************************************)
(* The state machine.  last is the call that ran last and what it          *)
(* returned; a specification that observes the arguments of the calls      *)
(* keeps them in last.call, the others keep the name alone.                *)
(***************************************************************************)
conn == [db |-> db, committed |-> committed]

RowCount == Cardinality(UNION {db.rows[t] : t \in Tables})

Call(observed, name, args) == IF observed THEN <<name>> \o args ELSE <<name>>

Returned(c, o) ==
  /\ db' = o.cs.db
  /\ committed' = o.cs.committed
  /\ last' = [call |-> c, ok |-> o.ok, err |-> o.err, owner |-> o.owner, out |-> o.out]

Plain(r) == Outcome(r.cs, r.ok, r.err, "", {})

\* main(): create_connection, drop_tables, create_tables on a fresh file.
Init ==
  /\ db = [present |-> Tables, rows |-> [t \in Tables |-> {}]]
  /\ committed = db
  /\ last = [call |-> <<"create_tables">>, ok |-> TRUE, err |-> "", owner |-> "", out |-> {}]

ExecuteQuery(S, observed) ==
  \E st \in S :
    /\ RowCount < MaxRows
    /\ Returned(Call(observed, "execute_query", <<st>>), Plain(execute_query(conn, st)))

ExecuteMany(T, observed) ==
  \E t \in T : \E data \in Batches(t) :
    /\ RowCount + Len(data) <= MaxRows
    /\ Returned(Call(observed, "execute_many", <<t, data>>),
                Plain(execute_many(conn, t, data)))

DropTables ==
  LET r == drop_tables(conn)
  IN Returned(<<"drop_tables">>, Outcome(r.cs, r.failed = 0, "", "", {}))

CreateTables ==
  LET r == create_tables(conn)
  IN Returned(<<"create_tables">>, Outcome(r.cs, r.failed = 0, "", "", {}))

AddOwnerAndPetCall(O, P, observed) ==
  \E o \in O : \E p \in P :
    /\ RowCount + 1 < MaxRows
    /\ Returned(Call(observed, "AddOwnerAndPet", <<o, p>>), AddOwnerAndPet(conn, o, p))

RecordExaminationCall(E, observed) ==
  \E e \in E :
    /\ RowCount < MaxRows
    /\ Returned(Call(observed, "RecordExamination", <<e>>), RecordExamination(conn, e))

ReassignStaffClinicCall(K, C, observed) ==
  \E k \in K : \E c \in C :
    Returned(Call(observed, "ReassignStaffClinic", <<k, c>>),
             ReassignStaffClinic(conn, k, c))

ListPetsByClinicCall ==
  \E c \in Keys("Clinic") :
    Returned(<<"ListPetsByClinic">>,
             Outcome(conn, TRUE, "", "", ListPetsByClinic(conn, c)))

ExaminationReportByStaffCall ==
  \E k \in Keys("Staff") :
    Returned(<<"ExaminationReportByStaff">>,
             Outcome(conn, TRUE, "", "", ExaminationReportByStaff(conn, k)))

Next ==
  \/ ExecuteQuery(DataStatements, FALSE)
  \/ ExecuteMany(Tables, FALSE)
  \/ DropTables
  \/ CreateTables
  \/ AddOwnerAndPetCall(RowArgs("Owner"), RowArgs("Pet"), FALSE)
  \/ RecordExaminationCall(RowArgs("Examination"), FALSE)
  \/ ReassignStaffClinicCall(Keys("Staff"), ClinicArgs, FALSE)
  \/ ListPetsByClinicCall
  \/ ExaminationReportByStaffCall

Spec == Init /\ [][Next]_vars

\* The schema manager under single statements: any table may be dropped or
\* created on its own, so any subset of the tables can be present.
NextSchema ==
  \/ ExecuteQuery(Inserts(Tables) \cup Schema, FALSE)
  \/ ExecuteMany({"Clinic", "Pet"}, FALSE)
  \/ DropTables
  \/ CreateTables

SpecSchema == Init /\ [][NextSchema]_vars

\* The single-statement calls with their arguments observed.
NextCalls ==
  \/ ExecuteQuery(DataStatements \cup InvalidInserts, TRUE)
  \/ ReassignStaffClinicCall(Keys("Staff"), ClinicArgs \cup {Null}, TRUE)

SpecCalls == Init /\ [][NextCalls]_vars

\* Transaction 1 with its arguments observed, on clinics and owners inserted
\* one statement at a time.
NextAdd ==
  \/ ExecuteQuery(Inserts({"Clinic", "Owner"}), TRUE)
  \/ AddOwnerAndPetCall(OwnerArgs, PetArgs, TRUE)

SpecAdd == Init /\ [][NextAdd]_vars

\* Inserts over the value domains, their arguments observed.
NextValues == ExecuteQuery(ValueStatements, TRUE)

SpecValues == Init /\ [][NextValues]_vars

(***************************************************************************)
(* Properties.                                                             *)
(***************************************************************************)
Diagnostics ==
  {NoSuchTable, NotNullFailed, CheckFailed, UniqueFailed, ForeignKeyFailed}

\* Every foreign key of every row of store s has its parent row.
RefIntegrity(s) ==
  \A t \in Tables : \A fk \in ForeignKeys(t) : \A r \in s.rows[t] :
    HasKey(s, fk.parent, r[fk.col])

\* C1: referential integrity is an invariant of the store, of what the
\* connection sees and of what is committed: every Staff row's clinicNo,
\* every Pet row's ownerNo and clinicNo and every Examination row's petNo and
\* staffNo is the key of an existing row, whatever sequence of execute_query,
\* execute_many, AddOwnerAndPet, RecordExamination and ReassignStaffClinic
\* calls ran; a write that would break it is not applied.
ReferentialIntegrity == RefIntegrity(db) /\ RefIntegrity(committed)

\* C1 witness: an examination, hence a pet, a staff member, an owner and a
\* clinic, are stored, and the last write was rejected by a foreign key.
ReferentialIntegrityWitness ==
  /\ db.rows["Examination"] # {}
  /\ ~last.ok
  /\ last.err = ForeignKeyFailed

\* C2 as claimed: execute_many is all-or-nothing; when a tuple is rejected it
\* returns failure and the connection sees, and has committed, exactly what it
\* did before the call; when none is rejected everything is committed.
BatchAllOrNothing ==
  [][last'.call[1] = "execute_many" =>
       IF last'.ok THEN committed' = db'
       ELSE db' = db /\ committed' = committed]_vars

DomainCalls ==
  {"AddOwnerAndPet", "RecordExamination", "ReassignStaffClinic",
   "ListPetsByClinic", "ExaminationReportByStaff"}

\* C8: rows are write-once under the domain operations: a step of one of the
\* five keeps every table, keeps every row under its key, and changes no
\* attribute of a kept row except the clinicNo of the Staff row that
\* ReassignStaffClinic was given (the row it re-reads); the two read
\* operations change nothing.
WriteOnce ==
  [][last'.call[1] \in DomainCalls =>
       /\ db'.present = db.present
       /\ \A t \in Tables : \A r \in db.rows[t] :
            \E q \in db'.rows[t] :
              /\ q[PrimaryKey(t)] = r[PrimaryKey(t)]
              /\ \/ q = r
                 \/ /\ t = "Staff"
                    /\ last'.call[1] = "ReassignStaffClinic"
                    /\ q = [r EXCEPT !.clinicNo = q.clinicNo]
                    /\ q \in last'.out
       /\ last'.call[1] \in {"ListPetsByClinic", "ExaminationReportByStaff"} =>
            db' = db /\ committed' = committed]_vars

\* C8 witness: ReassignStaffClinic has moved one of two staff members to the
\* other clinic.
WriteOnceWitness ==
  /\ last.call[1] = "ReassignStaffClinic"
  /\ last.ok
  /\ \E r \in last.out : \E q \in db.rows["Staff"] :
       q.staffNo # r.staffNo /\ q.clinicNo # r.clinicNo

Fresh == [present |-> Tables, rows |-> [t \in Tables |-> {}]]

\* C7: schema reset is total and idempotent: from every reachable state
\* (any subset of the tables present, any rows, a transaction open or not)
\* drop_tables leaves no table and create_tables then leaves the five tables
\* present and empty, committed, with no statement of either failing; a second
\* drop_tables and create_tables gives the same state.
SchemaReset ==
  LET d1 == drop_tables(conn)
      c1 == create_tables(d1.cs)
      d2 == drop_tables(c1.cs)
      c2 == create_tables(d2.cs)
  IN /\ d1.failed = 0 /\ d1.cs.db = EmptyStore
     /\ c1.failed = 0 /\ c1.cs = [db |-> Fresh, committed |-> Fresh]
     /\ d2.failed = 0 /\ d2.cs.db = EmptyStore
     /\ c2.failed = 0 /\ c2.cs = c1.cs
     /\ last.call[1] = "drop_tables" => last.ok /\ db = EmptyStore
     /\ last.call[1] = "create_tables" => last.ok /\ db.present = Tables

\* C7 witness: drop_tables has run on a store where a table was missing and
\* rows referenced each other; or the store now is such a store.
SchemaResetWitness ==
  /\ db.present # Tables
  /\ db.rows["Staff"] # {}
  /\ committed # db

\* Store d1 is store d0 with statement st applied.
Applied(st, d0, d1) ==
  CASE st.kind = "insert" ->
         /\ st.row \notin d0.rows[st.table]
         /\ d1 = [d0 EXCEPT !.rows[st.table] = @ \cup {st.row}]
    [] st.kind = "update" ->
         d1 = [d0 EXCEPT !.rows["Staff"] =
                 {IF r.staffNo = st.staffNo THEN [r EXCEPT !.clinicNo = st.clinicNo]
                  ELSE r : r \in @}]
    [] st.kind = "drop" -> d1 = [d0 EXCEPT !.present = @ \ {st.table},
                                          !.rows[st.table] = {}]
    [] st.kind = "create" -> d1 = [d0 EXCEPT !.present = @ \cup {st.table}]

\* C3: execute_query is atomic per call and returns, never raises: either the
\* statement is applied and committed and it returns success, or the store
\* rejects it, it returns failure with the diagnostic message, and the tables
\* (seen and committed) are exactly what they were before the call.
ExecuteAtomic ==
  [][last'.call[1] = "execute_query" =>
       IF last'.ok
         THEN /\ last'.err = ""
              /\ Applied(last'.call[2], db, db')
              /\ committed' = db'
         ELSE /\ last'.err \in Diagnostics
              /\ db' = db
              /\ committed' = committed]_vars

\* C3 witness: an UPDATE of an existing Staff row was rejected by a foreign
\* key and left nothing behind: the connection sees exactly what is committed,
\* the rows the earlier statements had inserted and committed.
ExecuteAtomicWitness ==
  /\ last.call[1] = "execute_query"
  /\ last.call[2].kind = "update"
  /\ last.err = ForeignKeyFailed
  /\ \E r \in db.rows["Staff"] : r.staffNo = last.call[2].staffNo
  /\ committed = db

\* C5: ReassignStaffClinic(staffNo, newClinicNo) on the created schema: when
\* the staff row and the clinic exist it succeeds and the re-read row has
\* clinicNo = newClinicNo; when the staff row exists and newClinicNo is the
\* key of no clinic it fails and every Staff row keeps its clinicNo; when the
\* staff row does not exist nothing changes and it returns success.
Reassign ==
  [][last'.call[1] = "ReassignStaffClinic" =>
       LET staffNo == last'.call[2]
           newClinicNo == last'.call[3]
           row == {r \in db.rows["Staff"] : r.staffNo = staffNo}
       IN /\ row # {} /\ HasKey(db, "Clinic", newClinicNo) =>
               /\ last'.ok
               /\ last'.out = {[r EXCEPT !.clinicNo = newClinicNo] : r \in row}
               /\ last'.out = {r \in db'.rows["Staff"] : r.staffNo = staffNo}
               /\ db'.rows["Staff"] \ last'.out = db.rows["Staff"] \ row
          /\ row # {} /\ ~HasKey(db, "Clinic", newClinicNo) =>
               /\ ~last'.ok
               /\ last'.err \in {ForeignKeyFailed, NotNullFailed}
               /\ db' = db
          /\ row = {} /\ {"Staff", "Clinic"} \subseteq db.present =>
               /\ last'.ok
               /\ last'.out = {}
               /\ db' = db]_vars

\* C5 witness: a reassignment to a clinic that does not exist was rejected
\* after the staff member had been moved away from the clinic of the insert.
ReassignWitness ==
  /\ last.call[1] = "ReassignStaffClinic"
  /\ ~last.ok
  /\ last.call[3] = V(InvalidKey)
  /\ \E r \in db.rows["Staff"] :
       r.staffNo = last.call[2] /\ r.clinicNo = V(KeyText("Clinic", 2))

PhoneColumn(t) ==
  CASE t = "Clinic" -> "clinicPhone"
    [] t = "Owner" -> "ownerPhone"
    [] t = "Staff" -> "staffPhone"
PhoneTables == {"Clinic", "Owner", "Staff"}

PhonesUnique ==
  \A t \in PhoneTables : \A r, q \in db.rows[t] :
    r[PhoneColumn(t)] = q[PhoneColumn(t)] => r = q

\* C6: phone uniqueness holds per table and only per table: no two Clinic
\* rows, no two Owner rows and no two Staff rows share a phone; an insert
\* with a phone already in the same table fails and leaves the table as it
\* was; an insert of a well-formed row with a new key, an existing clinic
\* where it has one, and a phone not in its own table succeeds, whatever
\* phones the other tables hold.
PhoneUniqueness ==
  /\ []PhonesUnique
  /\ [][last'.call[1] = "execute_query" /\ last'.call[2].kind = "insert"
          /\ last'.call[2].table \in PhoneTables =>
          LET t == last'.call[2].table
              r == last'.call[2].row
              used == \E q \in db.rows[t] : q[PhoneColumn(t)] = r[PhoneColumn(t)]
          IN /\ used => ~last'.ok /\ db' = db
             /\ (/\ ~used
                 /\ r \in RowArgs(t)
                 /\ ~HasKey(db, t, r[PrimaryKey(t)])
                 /\ ForeignKeysHold(db, t, r)) => last'.ok /\ r \in db'.rows[t]]_vars

\* C6 witness: a clinic and an owner share a phone, and the insert of a
\* second owner with that phone, under a new key, was rejected.
PhoneUniquenessWitness ==
  /\ last.call[1] = "execute_query"
  /\ last.call[2].kind = "insert"
  /\ last.call[2].table = "Owner"
  /\ last.err = UniqueFailed
  /\ ~HasKey(db, "Owner", last.call[2].row.ownerNo)
  /\ \E c \in db.rows["Clinic"] : \E o \in db.rows["Owner"] :
       /\ c.clinicPhone = o.ownerPhone
       /\ o.ownerPhone = last.call[2].row.ownerPhone

\* What AddOwnerAndPet does in a step; fkAlways says whether a pet insert
\* that follows a failed owner insert always reports the foreign key.
AddContract(fkAlways) ==
  last'.call[1] = "AddOwnerAndPet" =>
       LET o == last'.call[2]
           p == last'.call[3]
           existed == HasKey(db, "Owner", o.ownerNo)
           ownerFailed == last'.owner \notin {"exists", "added"}
           mid == IF last'.owner = "added"
                    THEN [db EXCEPT !.rows["Owner"] = @ \cup {o}] ELSE db
           pet == ExecInsert(mid, "Pet", p)
       IN \* the owner is inserted only if the point query finds none
          /\ (last'.owner = "exists") <=> existed
          /\ existed \/ ownerFailed \/ o \in db'.rows["Owner"]
          \* the pet insert runs after the owner step, whatever that did
          /\ last'.ok = pet.ok /\ last'.err = pet.err /\ db' = pet.db
          \* after a failed owner insert the pet of that owner is rejected
          /\ ownerFailed /\ p.ownerNo = o.ownerNo =>
               /\ ~last'.ok
               /\ (fkAlways \/ (p \in RowArgs("Pet") /\ ~HasKey(db, "Pet", p.petNo))) =>
                    last'.err = ForeignKeyFailed
          \* the scenario: owner absent and valid, pet valid, clinic there
          /\ (/\ ~existed
              /\ o \in RowArgs("Owner")
              /\ \A q \in db.rows["Owner"] : q.ownerPhone # o.ownerPhone
              /\ p \in RowArgs("Pet")
              /\ ~HasKey(db, "Pet", p.petNo)
              /\ p.ownerNo = o.ownerNo
              /\ HasKey(db, "Clinic", p.clinicNo)) =>
               /\ last'.owner = "added"
               /\ last'.ok
               /\ last'.out = {p}

\* C4 as claimed: AddOwnerAndPet always attempts the pet insert, after the
\* owner step; the owner is inserted only if the point query finds none; when
\* the owner insert failed the pet insert fails with a foreign-key violation;
\* when owner and pet are valid and the clinic exists both inserts succeed and
\* the re-read of the pet key gives exactly the inserted row.
AddOwnerThenPetClaimed == [][AddContract(TRUE)]_vars

\* C4 amended: as claimed, except that after a failed owner insert the pet
\* insert fails with a foreign-key violation when the pet row is well formed
\* and its key is unused; otherwise it fails with the NOT NULL, CHECK or
\* UNIQUE violation, which the store reports first.
AddOwnerThenPet == [][AddContract(FALSE)]_vars

\* C4 witness: the owner insert failed and the insert of a well-formed pet of
\* that owner, at an existing clinic, was rejected by the foreign key.
AddOwnerThenPetWitness ==
  /\ last.call[1] = "AddOwnerAndPet"
  /\ last.owner = CheckFailed
  /\ last.call[3].ownerNo = last.call[2].ownerNo
  /\ HasKey(db, "Clinic", last.call[3].clinicNo)
  /\ last.err = ForeignKeyFailed

ConstraintViolations == Diagnostics \ {NoSuchTable}

DomainsHold ==
  /\ \A r \in db.rows["Pet"] : ~IsNull(r.species) /\ r.species.v \in Species
  /\ \A r \in db.rows["Staff"] :
       /\ ~IsNull(r.position) /\ r.position.v \in Positions
       /\ ~IsNull(r.salary) /\ r.salary.v > 0

\* C9 as claimed: the enumerated and range domains are invariants enforced by
\* the store: every Pet row has its species among the five, every Staff row
\* its position among the four and salary > 0, and an insert supplying a
\* value outside these domains, NULL included, is rejected with a constraint
\* violation.
DomainsEnforced ==
  /\ []DomainsHold
  /\ [][last'.call[1] = "execute_query" /\ last'.call[2].kind = "insert" =>
          LET r == last'.call[2].row
              outside ==
                \/ /\ last'.call[2].table = "Pet"
                   /\ IsNull(r.species) \/ r.species.v \notin Species
                \/ /\ last'.call[2].table = "Staff"
                   /\ \/ IsNull(r.position) \/ r.position.v \notin Positions
                      \/ IsNull(r.salary) \/ r.salary.v <= 0
          IN outside => ~last'.ok /\ last'.err \in ConstraintViolations]_vars

IsLeap(y) == (y % 4 = 0 /\ y % 100 # 0) \/ y % 400 = 0
DaysInMonth(y, m) ==
  IF m = 2 THEN (IF IsLeap(y) THEN 29 ELSE 28)
  ELSE IF m \in {4, 6, 9, 11} THEN 30 ELSE 31
\* x is the text of a day of the calendar.
CalendarDate(x) ==
  /\ ~IsNull(x)
  /\ x.v[2] \in 1..12
  /\ x.v[3] \in 1..DaysInMonth(x.v[1], x.v[2])

DateColumn(t) ==
  CASE t = "Staff" -> "dateOfBirth"
    [] t = "Pet" -> "petDateOfBirth"
    [] t = "Examination" -> "dateSeen"

\* C10 as claimed: date validity is enforced by the store: an insert of an
\* Examination, Pet or Staff row is rejected with a constraint violation if
\* its date is not a day of the calendar (month outside 1..12, or a day that
\* the month of that year does not have), and is accepted if it is one and
\* the other fields are valid (the row would be accepted with 2023-06-10).
DatesEnforced ==
  [][/\ last'.call[1] = "execute_query"
     /\ last'.call[2].kind = "insert"
     /\ last'.call[2].table \in {"Staff", "Pet", "Examination"} =>
       LET t == last'.call[2].table
           r == last'.call[2].row
           d == r[DateColumn(t)]
       IN /\ ~CalendarDate(d) =>
               ~last'.ok /\ last'.err \in ConstraintViolations
          /\ CalendarDate(d)
               /\ ExecInsert(db, t, [r EXCEPT ![DateColumn(t)] = GoodDate]).ok =>
               last'.ok]_vars

====
